---- MODULE Spec2Model ----
(***************************************************************************)
(* Model of usecases/schema: the Handler facade (handler.go) and the       *)
(* Manager's UpdatePropertyAddDataType (update_property.go).               *)
(*                                                                         *)
(* Collaborators behind interfaces (authorizer, metaWriter, clusterState,  *)
(* saveSchema, migrator) answer nondeterministically: every handler action *)
(* takes their answers as inputs and records each call it makes, in order, *)
(* in last.calls.  Strings the code takes apart or builds character by     *)
(* character (addresses, ports) are sequences of one-character strings.    *)
(***************************************************************************)
EXTENDS Naturals, Sequences, FiniteSets, TLC

VARIABLES
    schema,       \* m.state: the in-memory schema, a sequence of classes
    members,      \* the cluster membership kept behind metaWriter
    shardStatus,  \* the shard statuses kept behind metaWriter
    last,         \* the last completed call: its arguments, result, the
                  \* collaborator calls it made and the state it started from
    pc,           \* per goroutine: where its UpdatePropertyAddDataType stands
    frame,        \* per goroutine: the arguments and locals of that call
    cluster       \* behind metaReader: the consensus log, how far each node
                  \* has applied it, and the schema read in flight

vars == <<schema, members, shardStatus, last, pc, frame, cluster>>

\* Go's nil error.
Nil == "nil"

----------------------------------------------------------------------------
(* Input domains *)

Principals == {"admin", "guest"}
AuthErrors == {"forbidden", "unauthenticated"}
ClassNames == {"Article", "Author", "article"}
PropNames == {"tags", "name"}
DataTypes == {"text", "Text", "text[]"}
ShardClasses == {"Article"}
Shards == {"s1"}
Statuses == {"READY", "READONLY"}
Nodes == {"n1", "n2"}
NodePorts == {<<>>, <<"9">>}
WriterErrors == {"not leader"}
SaveErrors == {"save failed"}
MigratorErrors == {"migrate failed"}

\* Goroutines calling UpdatePropertyAddDataType with no schema lock held.
NumGoroutines == 2
Goroutines == 1..NumGoroutines
RaceClassNames == {"Article", "article"}
RacePropNames == {"tags"}

\* The nodes of the cluster, the classes their mutations name, and the
\* longest consensus log followed.
ClusterNodes == {"n1", "n2"}
ClusterClasses == {"Article"}
MaxLog == 2

----------------------------------------------------------------------------
(* Strings *)

\* The index of the first occurrence of sep in s, 0 when there is none.
RECURSIVE IndexFrom(_, _, _)
IndexFrom(s, sep, i) ==
    IF i > Len(s) THEN 0
    ELSE IF s[i] = sep THEN i
    ELSE IndexFrom(s, sep, i + 1)

\* strings.Split(s, sep) for a one-character sep: the pieces of s between
\* the occurrences of sep, <<s>> when sep does not occur.
RECURSIVE Split(_, _)
Split(s, sep) ==
    LET i == IndexFrom(s, sep, 1)
    IN  IF i = 0 THEN <<s>>
        ELSE <<SubSeq(s, 1, i - 1)>> \o Split(SubSeq(s, i + 1, Len(s)), sep)

Digit(d) == CASE d = 0 -> "0" [] d = 1 -> "1" [] d = 2 -> "2" [] d = 3 -> "3"
              [] d = 4 -> "4" [] d = 5 -> "5" [] d = 6 -> "6" [] d = 7 -> "7"
              [] d = 8 -> "8" [] d = 9 -> "9"

\* fmt.Sprintf("%d", n) for n >= 0.
RECURSIVE SprintfD(_)
SprintfD(n) ==
    IF n < 10 THEN <<Digit(n)>>
    ELSE SprintfD(n \div 10) \o <<Digit(n % 10)>>

\* config.DefaultRaftPort
DefaultRaftPort == 8300

----------------------------------------------------------------------------
(* Collaborators *)

\* One recorded collaborator call.
Call(fn, args, ret) == [fn |-> fn, args |-> args, ret |-> ret]

\* The record of a completed handler call (principal is "" for the operations
\* that take none); before holds the result and trace of the call before it
\* when that was the same operation with the same arguments, whoever the
\* principal, and is empty otherwise.
Returned(op, principal, args, ret, calls) ==
    [op |-> op, principal |-> principal, args |-> args, ret |-> ret,
     calls |-> calls,
     before |-> IF last.op = op /\ last.args = args
                THEN <<[ret |-> last.ret, calls |-> last.calls]>>
                ELSE <<>>,
     pre |-> [schema |-> schema, members |-> members,
              shardStatus |-> shardStatus]]

\* What clusterState.NodeHostname may answer: an address with a gossip
\* port, a bare host name, or not-ok for a node the memberlist does not know.
Hostnames ==
    {[addr |-> <<"a", ":", "7", ":", "8">>, ok |-> TRUE],
     [addr |-> <<"b">>, ok |-> TRUE],
     [addr |-> <<>>, ok |-> FALSE]}

\* metaWriter.Join: on success the node is a member at raftAddr.
MetaWriterJoin(node, raftAddr, voter, err) ==
    IF err # Nil THEN members
    ELSE {m \in members : m.node # node}
            \cup {[node |-> node, raftAddr |-> raftAddr, voter |-> voter]}

\* metaWriter.Remove: on success the node is no member.
MetaWriterRemove(node, err) ==
    IF err # Nil THEN members ELSE {m \in members : m.node # node}

\* metaWriter.UpdateShardStatus: on success the shard has the status.
MetaWriterUpdateShardStatus(class, shard, status, err) ==
    IF err # Nil THEN shardStatus
    ELSE [shardStatus EXCEPT ![<<class, shard>>] = status]

----------------------------------------------------------------------------
(* Handler *)

\* UpdateShardStatus without the early return: the status is written whatever
\* the authorizer answered.
UpdateShardStatusNoEarlyReturn(principal, class, shard, status, authErr, mwErr) ==
    /\ shardStatus' = MetaWriterUpdateShardStatus(class, shard, status, mwErr)
    /\ last' = Returned("UpdateShardStatus", principal, <<class, shard, status>>,
                 IF authErr # Nil THEN authErr ELSE mwErr,
                 <<Call("Authorizer.Authorize",
                        <<principal, "update",
                          "schema/" \o class \o "/shards/" \o shard>>, authErr),
                   Call("metaWriter.UpdateShardStatus",
                        <<class, shard, status>>, mwErr)>>)
    /\ UNCHANGED <<schema, members, pc, frame, cluster>>

\* UpdateShardStatus that writes first and asks the authorizer afterwards.
UpdateShardStatusWriteFirst(principal, class, shard, status, authErr, mwErr) ==
    /\ shardStatus' = MetaWriterUpdateShardStatus(class, shard, status, mwErr)
    /\ last' = Returned("UpdateShardStatus", principal, <<class, shard, status>>,
                 IF mwErr # Nil THEN mwErr ELSE authErr,
                 <<Call("metaWriter.UpdateShardStatus",
                        <<class, shard, status>>, mwErr),
                   Call("Authorizer.Authorize",
                        <<principal, "update",
                          "schema/" \o class \o "/shards/" \o shard>>, authErr)>>)
    /\ UNCHANGED <<schema, members, pc, frame, cluster>>

\* Handler.UpdateShardStatus
UpdateShardStatus(principal, class, shard, status, authErr, mwErr) ==
    LET auth == Call("Authorizer.Authorize",
                     <<principal, "update",
                       "schema/" \o class \o "/shards/" \o shard>>, authErr)
        write == Call("metaWriter.UpdateShardStatus",
                      <<class, shard, status>>, mwErr)
        args == <<class, shard, status>>
    IN  /\ IF authErr # Nil
           THEN /\ last' = Returned("UpdateShardStatus", principal, args,
                                    authErr, <<auth>>)
                /\ UNCHANGED shardStatus
           ELSE /\ shardStatus' =
                       MetaWriterUpdateShardStatus(class, shard, status, mwErr)
                /\ last' = Returned("UpdateShardStatus", principal, args,
                                    mwErr, <<auth, write>>)
        /\ UNCHANGED <<schema, members, pc, frame, cluster>>

\* A host that is the whole address, gossip port included.
HostOfUncut(nodeAddr) == nodeAddr

\* nodeAddr = strings.Split(nodeAddr, ":")[0]
HostOf(nodeAddr) == Split(nodeAddr, ":")[1]

\* if nodePort == "" { nodePort = fmt.Sprintf("%d", config.DefaultRaftPort) }
PortOf(nodePort) ==
    IF nodePort = <<>> THEN SprintfD(DefaultRaftPort) ELSE nodePort

\* JoinNode that does not look at ok and joins with whatever address came back.
JoinNodeIgnoringOk(node, nodePort, voter, r, mwErr) ==
    LET raftAddr == HostOf(r.addr) \o <<":">> \o PortOf(nodePort)
    IN  /\ members' = MetaWriterJoin(node, raftAddr, voter, mwErr)
        /\ last' = Returned("JoinNode", "", <<node, nodePort, voter>>, mwErr,
                     <<Call("clusterState.NodeHostname", <<node>>, r),
                       Call("metaWriter.Join", <<node, raftAddr, voter>>, mwErr)>>)
        /\ UNCHANGED <<schema, shardStatus, pc, frame, cluster>>

\* Handler.JoinNode
JoinNode(node, nodePort, voter, r, mwErr) ==
    LET resolve == Call("clusterState.NodeHostname", <<node>>, r)
        raftAddr == HostOf(r.addr) \o <<":">> \o PortOf(nodePort)
        join == Call("metaWriter.Join", <<node, raftAddr, voter>>, mwErr)
        args == <<node, nodePort, voter>>
    IN  /\ IF ~r.ok
           THEN /\ last' = Returned("JoinNode", "", args,
                              "could not resolve addr for node id " \o node,
                              <<resolve>>)
                /\ UNCHANGED members
           ELSE /\ members' = MetaWriterJoin(node, raftAddr, voter, mwErr)
                /\ last' = Returned("JoinNode", "", args, mwErr,
                                    <<resolve, join>>)
        /\ UNCHANGED <<schema, shardStatus, pc, frame, cluster>>

\* Handler.RemoveNode
RemoveNode(node, mwErr) ==
    /\ members' = MetaWriterRemove(node, mwErr)
    /\ last' = Returned("RemoveNode", "", <<node>>, mwErr,
                        <<Call("metaWriter.Remove", <<node>>, mwErr)>>)
    /\ UNCHANGED <<schema, shardStatus, pc, frame, cluster>>

----------------------------------------------------------------------------
(* Manager *)

\* schema.GetClassByName: the first class of the schema with exactly this
\* name, or the no-such-class error.
GetClassByName(s, className) ==
    LET found == {i \in DOMAIN s : s[i].class = className}
    IN  IF found = {}
        THEN [class |-> 0, err |-> "no such class with name '" \o className \o "'"]
        ELSE [class |-> CHOOSE i \in found : \A j \in found : i <= j,
              err |-> Nil]

\* schema.GetPropertyByName: the first property of the class with this name,
\* or the no-such-property error.
GetPropertyByName(class, propName) ==
    LET found == {i \in DOMAIN class.properties :
                     class.properties[i].name = propName}
    IN  IF found = {}
        THEN [prop |-> 0, err |-> "no such prop with name '" \o propName
                                   \o "' found in class '" \o class.class \o "'"]
        ELSE [prop |-> CHOOSE i \in found : \A j \in found : i <= j,
              err |-> Nil]

\* A containment test that looks at the first element only.
dataTypeIsFirst(haystack, needle) ==
    Len(haystack) > 0 /\ haystack[1] = needle

\* dataTypeAlreadyContained
dataTypeAlreadyContained(haystack, needle) ==
    \E i \in DOMAIN haystack : haystack[i] = needle

\* An append that puts the new type in front.
PrependDataType(s, class, prop, newDataType) ==
    [s EXCEPT ![class].properties[prop].dataType = <<newDataType>> \o @]

\* prop.DataType = append(prop.DataType, newDataType)
AppendDataType(s, class, prop, newDataType) ==
    [s EXCEPT ![class].properties[prop].dataType = Append(@, newDataType)]

\* A lookup error that is swallowed the way the save error is.
LookupFailedSwallowed(err) == Nil

\* if err != nil { return err } after GetClassByName and GetPropertyByName
LookupFailed(err) == err

\* A save error that is returned to the caller.
SaveFailedPropagated(saveErr) == saveErr

\* if err != nil { return nil } after saveSchema
SaveFailed(saveErr) == Nil

\* UpdatePropertyAddDataType that overwrites the save error with the
\* migrator's: the migrator is called whether or not the save succeeded.
UpdatePropertyAddDataTypeMigrateAnyway(principal, className, propName, newDataType) ==
    LET args == <<className, propName, newDataType>>
        Ret(ret, calls) ==
            last' = Returned("UpdatePropertyAddDataType", principal, args, ret,
                             calls)
        read == Call("state.SchemaFor", <<>>, Nil)
        c == GetClassByName(schema, className)
        p == GetPropertyByName(schema[c.class], propName)
    IN  /\ \E authErr \in AuthErrors \cup {Nil} :
            LET auth == Call("authorizer.Authorize",
                             <<principal, "update", "schema/objects">>, authErr)
            IN  IF authErr # Nil
                THEN Ret(authErr, <<auth>>) /\ UNCHANGED schema
                ELSE IF c.err # Nil
                THEN Ret(LookupFailed(c.err), <<auth, read>>) /\ UNCHANGED schema
                ELSE IF p.err # Nil
                THEN Ret(LookupFailed(p.err), <<auth, read>>) /\ UNCHANGED schema
                ELSE IF dataTypeAlreadyContained(
                            schema[c.class].properties[p.prop].dataType,
                            newDataType)
                THEN Ret(Nil, <<auth, read>>) /\ UNCHANGED schema
                ELSE /\ schema' = AppendDataType(schema, c.class, p.prop,
                                                 newDataType)
                     /\ \E saveErr \in SaveErrors \cup {Nil},
                           migErr \in MigratorErrors \cup {Nil} :
                          Ret(migErr,
                              <<auth, read, Call("saveSchema", <<>>, saveErr),
                                Call("migrator.UpdatePropertyAddDataType",
                                     <<className, propName, newDataType>>,
                                     migErr)>>)
        /\ UNCHANGED <<members, shardStatus, pc, frame, cluster>>

\* Manager.UpdatePropertyAddDataType
UpdatePropertyAddDataType(principal, className, propName, newDataType) ==
    LET args == <<className, propName, newDataType>>
        Ret(ret, calls) ==
            last' = Returned("UpdatePropertyAddDataType", principal, args, ret,
                             calls)
        read == Call("state.SchemaFor", <<>>, Nil)
        c == GetClassByName(schema, className)
        p == GetPropertyByName(schema[c.class], propName)
    IN  /\ \E authErr \in AuthErrors \cup {Nil} :
            LET auth == Call("authorizer.Authorize",
                             <<principal, "update", "schema/objects">>, authErr)
            IN  IF authErr # Nil
                THEN Ret(authErr, <<auth>>) /\ UNCHANGED schema
                ELSE IF c.err # Nil
                THEN Ret(LookupFailed(c.err), <<auth, read>>) /\ UNCHANGED schema
                ELSE IF p.err # Nil
                THEN Ret(LookupFailed(p.err), <<auth, read>>) /\ UNCHANGED schema
                ELSE IF dataTypeAlreadyContained(
                            schema[c.class].properties[p.prop].dataType,
                            newDataType)
                THEN Ret(Nil, <<auth, read>>) /\ UNCHANGED schema
                ELSE /\ schema' = AppendDataType(schema, c.class, p.prop,
                                                 newDataType)
                     /\ \E saveErr \in SaveErrors \cup {Nil} :
                          LET save == Call("saveSchema", <<>>, saveErr)
                          IN  IF saveErr # Nil
                              THEN Ret(SaveFailed(saveErr), <<auth, read, save>>)
                              ELSE \E migErr \in MigratorErrors \cup {Nil} :
                                     Ret(migErr,
                                         <<auth, read, save,
                                           Call("migrator.UpdatePropertyAddDataType",
                                                <<className, propName, newDataType>>,
                                                migErr)>>)
        /\ UNCHANGED <<members, shardStatus, pc, frame, cluster>>

----------------------------------------------------------------------------
(* Manager.UpdatePropertyAddDataType statement by statement, for callers    *)
(* that hold no schema lock.  prop is a pointer into the shared schema, so  *)
(* each access of prop.DataType is a step of its own: the containment test, *)
(* the read that append makes, and the assignment of append's result.  The  *)
(* accesses race; a slice header torn between two assignments is not among  *)
(* the outcomes modelled here.                                              *)

Goto(g, label) == pc' = [pc EXCEPT ![g] = label]

Return(g, ret) ==
    /\ pc' = [pc EXCEPT ![g] = "done"]
    /\ frame' = [frame EXCEPT ![g].ret = ret]

\* The call is made.
RaceCall(g) ==
    /\ pc[g] = "idle"
    /\ \E className \in RaceClassNames, propName \in RacePropNames,
          newDataType \in DataTypes :
            frame' = [frame EXCEPT ![g].className = className,
                                   ![g].propName = propName,
                                   ![g].newDataType = newDataType]
    /\ Goto(g, "authorize")
    /\ UNCHANGED <<schema, members, shardStatus, last, cluster>>

\* err := m.authorizer.Authorize(...); if err != nil { return err }
RaceAuthorize(g) ==
    /\ pc[g] = "authorize"
    /\ \E authErr \in AuthErrors \cup {Nil} :
          IF authErr # Nil THEN Return(g, authErr)
          ELSE Goto(g, "lookup") /\ UNCHANGED frame
    /\ UNCHANGED <<schema, members, shardStatus, last, cluster>>

\* m.state.SchemaFor(), GetClassByName, GetPropertyByName
RaceLookup(g) ==
    LET c == GetClassByName(schema, frame[g].className)
        p == GetPropertyByName(schema[c.class], frame[g].propName)
    IN  /\ pc[g] = "lookup"
        /\ IF c.err # Nil THEN Return(g, LookupFailed(c.err))
           ELSE IF p.err # Nil THEN Return(g, LookupFailed(p.err))
           ELSE /\ frame' = [frame EXCEPT ![g].class = c.class,
                                          ![g].prop = p.prop]
                /\ Goto(g, "contained")
        /\ UNCHANGED <<schema, members, shardStatus, last, cluster>>

\* if dataTypeAlreadyContained(prop.DataType, newDataType) { return nil }
RaceContained(g) ==
    /\ pc[g] = "contained"
    /\ IF dataTypeAlreadyContained(
             schema[frame[g].class].properties[frame[g].prop].dataType,
             frame[g].newDataType)
       THEN Return(g, Nil)
       ELSE Goto(g, "append") /\ UNCHANGED frame
    /\ UNCHANGED <<schema, members, shardStatus, last, cluster>>

\* append(prop.DataType, newDataType): the slice is read
RaceAppend(g) ==
    /\ pc[g] = "append"
    /\ frame' = [frame EXCEPT ![g].slice =
            schema[frame[g].class].properties[frame[g].prop].dataType]
    /\ Goto(g, "assign")
    /\ UNCHANGED <<schema, members, shardStatus, last, cluster>>

\* prop.DataType = ...: the appended slice is stored
RaceAssign(g) ==
    /\ pc[g] = "assign"
    /\ schema' = [schema EXCEPT
            ![frame[g].class].properties[frame[g].prop].dataType =
                Append(frame[g].slice, frame[g].newDataType)]
    /\ Goto(g, "save")
    /\ UNCHANGED <<frame, members, shardStatus, last, cluster>>

\* err = m.saveSchema(ctx); if err != nil { return nil }
RaceSave(g) ==
    /\ pc[g] = "save"
    /\ \E saveErr \in SaveErrors \cup {Nil} :
          IF saveErr # Nil THEN Return(g, SaveFailed(saveErr))
          ELSE Goto(g, "migrate") /\ UNCHANGED frame
    /\ UNCHANGED <<schema, members, shardStatus, last, cluster>>

\* return m.migrator.UpdatePropertyAddDataType(...)
RaceMigrate(g) ==
    /\ pc[g] = "migrate"
    /\ \E migErr \in MigratorErrors \cup {Nil} : Return(g, migErr)
    /\ UNCHANGED <<schema, members, shardStatus, last, cluster>>

----------------------------------------------------------------------------
(* The schema behind metaReader, and the Handler's reads of it *)

\* State machine Apply of one committed record to a schema (the sequence of
\* its class names).
Apply(s, record) ==
    IF record.kind = "AddClass"
    THEN IF \E i \in DOMAIN s : s[i] = record.class THEN s
         ELSE Append(s, record.class)
    ELSE SelectSeq(s, LAMBDA c : c # record.class)

\* The schema the records of l give, applied in log order.
RECURSIVE Replay(_)
Replay(l) ==
    IF l = <<>> THEN <<>>
    ELSE Apply(Replay(SubSeq(l, 1, Len(l) - 1)), l[Len(l)])

\* The log entries whose commit was acknowledged to their proposer: the
\* proposer's own apply of the entry has run.
Acknowledged ==
    {i \in DOMAIN cluster.log : cluster.applied[cluster.log[i].proposer] >= i}

\* A read that does not wait for the node to catch up.
ReadLocal(n, readIndex) == TRUE

\* A linearizable read on node n may answer once n has applied the log up to
\* the commit index obtained when the read was issued.
ReadCaughtUp(n, readIndex) == cluster.applied[n] >= readIndex

\* metaReader.ReadOnlySchema on node n: its projection of the log.
ReadOnlySchema(n) == Replay(SubSeq(cluster.log, 1, cluster.applied[n]))

NoRead ==
    [state |-> "idle", node |-> "", op |-> "", principal |-> "",
     readIndex |-> 0, issuedAfter |-> {}, calls |-> <<>>, upto |-> 0,
     result |-> <<>>]

\* What a schema read on node n leaves in last; reads change nothing, and no
\* history of earlier reads is kept.
ReadReturned(op, principal, n, ret, calls) ==
    [Returned(op, principal, <<n>>, ret, calls) EXCEPT !.before = <<>>]

\* A mutation proposed on node n is committed: it is the next log entry.
Propose(n, kind, class) ==
    /\ Len(cluster.log) < MaxLog
    /\ cluster' = [cluster EXCEPT !.log =
            Append(@, [kind |-> kind, class |-> class, proposer |-> n])]
    /\ UNCHANGED <<schema, members, shardStatus, last, pc, frame>>

\* Node n applies the next committed entry.
ApplyNext(n) ==
    /\ cluster.applied[n] < Len(cluster.log)
    /\ cluster' = [cluster EXCEPT !.applied[n] = @ + 1]
    /\ UNCHANGED <<schema, members, shardStatus, last, pc, frame>>

\* schema.Schema{}: no Objects; schema.Schema{Objects: &s}: Objects points to s.
EmptySchema == [Objects |-> <<>>]
SchemaOf(s) == [Objects |-> <<s>>]

\* The read of node n is issued: ReadOnlySchema obtains the commit index.
IssueRead(n, op, principal, calls) ==
    cluster' = [cluster EXCEPT !.read =
        [state |-> "waiting", node |-> n, op |-> op, principal |-> principal,
         readIndex |-> Len(cluster.log), issuedAfter |-> Acknowledged,
         calls |-> calls, upto |-> 0, result |-> <<>>]]

\* GetSchema that reads the schema whatever the authorizer answered.
GetSchemaNoEarlyReturn(n, principal) ==
    /\ cluster.read.state # "waiting"
    /\ \E authErr \in AuthErrors \cup {Nil} :
          IssueRead(n, "GetSchema", principal,
                    <<Call("Authorizer.Authorize",
                           <<principal, "list", "schema/*">>, authErr)>>)
    /\ UNCHANGED <<schema, members, shardStatus, last, pc, frame>>

\* Handler.GetSchema on node n, up to its call of getSchema
GetSchema(n, principal) ==
    /\ cluster.read.state # "waiting"
    /\ \E authErr \in AuthErrors \cup {Nil} :
          LET auth == Call("Authorizer.Authorize",
                           <<principal, "list", "schema/*">>, authErr)
          IN  IF authErr # Nil
              THEN /\ last' = ReadReturned("GetSchema", principal, n,
                                [schema |-> EmptySchema, err |-> authErr],
                                <<auth>>)
                   /\ cluster' = [cluster EXCEPT !.read = NoRead]
              ELSE /\ IssueRead(n, "GetSchema", principal, <<auth>>)
                   /\ UNCHANGED last
    /\ UNCHANGED <<schema, members, shardStatus, pc, frame>>

\* Handler.GetSchemaSkipAuth on node n, up to its call of getSchema
GetSchemaSkipAuth(n) ==
    /\ cluster.read.state # "waiting"
    /\ IssueRead(n, "GetSchemaSkipAuth", "", <<>>)
    /\ UNCHANGED <<schema, members, shardStatus, last, pc, frame>>

\* Handler.getSchema: ReadOnlySchema answers, and the caller returns the
\* schema wrapped around the answer.
getSchema ==
    LET r == cluster.read
        s == ReadOnlySchema(r.node)
    IN  /\ r.state = "waiting"
        /\ ReadCaughtUp(r.node, r.readIndex)
        /\ last' = ReadReturned(r.op, r.principal, r.node,
                     [schema |-> SchemaOf(s), err |-> Nil],
                     r.calls \o <<Call("metaReader.ReadOnlySchema", <<>>, s)>>)
        /\ cluster' = [cluster EXCEPT !.read =
                [r EXCEPT !.state = "returned",
                          !.upto = cluster.applied[r.node], !.result = s]]
        /\ UNCHANGED <<schema, members, shardStatus, pc, frame>>

----------------------------------------------------------------------------
(* Specification *)

Init ==
    /\ schema = <<
          [class |-> "Article",
           properties |-> <<[name |-> "tags", dataType |-> <<"text">>]>>],
          [class |-> "Author",
           properties |-> <<[name |-> "name", dataType |-> <<"text">>]>>] >>
    /\ members = {}
    /\ shardStatus = [k \in ShardClasses \X Shards |-> "READY"]
    /\ last = [op |-> "none", principal |-> "", args |-> <<>>, ret |-> Nil, calls |-> <<>>,
               before |-> <<>>,
               pre |-> [schema |-> <<>>, members |-> {},
                        shardStatus |-> <<>>]]
    /\ cluster = [log |-> <<>>, applied |-> [n \in ClusterNodes |-> 0],
                  read |-> NoRead]
    /\ pc = [g \in Goroutines |-> "idle"]
    /\ frame = [g \in Goroutines |->
                  [className |-> "", propName |-> "", newDataType |-> "",
                   class |-> 0, prop |-> 0, slice |-> <<>>, ret |-> Nil]]

Next ==
    \/ \E principal \in Principals, class \in ShardClasses, shard \in Shards,
          status \in Statuses, authErr \in AuthErrors \cup {Nil},
          mwErr \in WriterErrors \cup {Nil} :
            UpdateShardStatus(principal, class, shard, status, authErr, mwErr)
    \/ \E node \in Nodes, nodePort \in NodePorts, voter \in BOOLEAN,
          r \in Hostnames, mwErr \in WriterErrors \cup {Nil} :
            JoinNode(node, nodePort, voter, r, mwErr)
    \/ \E node \in Nodes, mwErr \in WriterErrors \cup {Nil} :
            RemoveNode(node, mwErr)

Spec == Init /\ [][Next]_vars

\* The mutations made on behalf of a principal.
NextPrincipal ==
    \/ \E principal \in Principals, class \in ShardClasses, shard \in Shards,
          status \in Statuses, authErr \in AuthErrors \cup {Nil},
          mwErr \in WriterErrors \cup {Nil} :
            UpdateShardStatus(principal, class, shard, status, authErr, mwErr)
    \/ \E principal \in Principals, className \in ClassNames,
          propName \in PropNames, newDataType \in DataTypes :
            UpdatePropertyAddDataType(principal, className, propName,
                                      newDataType)

SpecPrincipal == Init /\ [][NextPrincipal]_vars

\* Concurrent UpdatePropertyAddDataType calls, one per goroutine.
NextRace ==
    \E g \in Goroutines :
        \/ RaceCall(g)
        \/ RaceAuthorize(g)
        \/ RaceLookup(g)
        \/ RaceContained(g)
        \/ RaceAppend(g)
        \/ RaceAssign(g)
        \/ RaceSave(g)
        \/ RaceMigrate(g)

SpecRace == Init /\ [][NextRace]_vars

\* Schema mutations committed and applied across the cluster, and the
\* Handler's schema reads on its nodes.
NextCluster ==
    \/ \E n \in ClusterNodes, kind \in {"AddClass", "DeleteClass"},
          class \in ClusterClasses : Propose(n, kind, class)
    \/ \E n \in ClusterNodes : ApplyNext(n)
    \/ \E n \in ClusterNodes, principal \in Principals :
            GetSchema(n, principal)
    \/ \E n \in ClusterNodes : GetSchemaSkipAuth(n)
    \/ getSchema

SpecCluster == Init /\ [][NextCluster]_vars

----------------------------------------------------------------------------
(* Properties *)

\* The positions in the last call's trace of the calls to fn.
CallsTo(fn) == {i \in DOMAIN last.calls : last.calls[i].fn = fn}

NumCalls(fn) == Cardinality(CallsTo(fn))

\* The positions of the calls to the authorizer (the Handler's field is
\* Authorizer, the Manager's authorizer).
AuthorizeCalls ==
    CallsTo("Authorizer.Authorize") \cup CallsTo("authorizer.Authorize")

\* The positions of the metaWriter calls that propose a mutation.
WriterCalls ==
    CallsTo("metaWriter.UpdateShardStatus") \cup CallsTo("metaWriter.Join")
        \cup CallsTo("metaWriter.Remove")

\* The last call left the state as it found it.
StateUntouched ==
    /\ schema = last.pre.schema
    /\ members = last.pre.members
    /\ shardStatus = last.pre.shardStatus

\* C1: when the authorizer returns an error to UpdateShardStatus or to
\* UpdatePropertyAddDataType, the call returns that very error and has written
\* nothing: no metaWriter.UpdateShardStatus call, no read of the schema, no
\* saveSchema call, no migrator call, and the state is as before the call.
C1_AuthorizationShortCircuit ==
    last.op \in {"UpdateShardStatus", "UpdatePropertyAddDataType"} =>
        \A i \in AuthorizeCalls :
            last.calls[i].ret # Nil =>
                /\ last.ret = last.calls[i].ret
                /\ NumCalls("metaWriter.UpdateShardStatus") = 0
                /\ NumCalls("state.SchemaFor") = 0
                /\ NumCalls("saveSchema") = 0
                /\ NumCalls("migrator.UpdatePropertyAddDataType") = 0
                /\ StateUntouched

\* An unauthorized UpdatePropertyAddDataType of a type the property lacks, on
\* a schema and shard status earlier calls have already changed.
C1_Witness ==
    /\ last.op = "UpdatePropertyAddDataType"
    /\ last.ret = "unauthenticated"
    /\ last.args[1] = "Article" /\ last.args[2] = "tags"
    /\ last.args[3] = "text[]"
    /\ schema[1].properties[1].dataType = <<"text", "Text">>
    /\ shardStatus[<<"Article", "s1">>] = "READONLY"

\* C2 as claimed: every metaWriter mutation call of UpdateShardStatus, JoinNode
\* and RemoveNode comes after an authorizer call that returned nil.
C2_EveryMutationAuthorized ==
    last.op \in {"UpdateShardStatus", "JoinNode", "RemoveNode"} =>
        \A i \in WriterCalls :
            \E j \in AuthorizeCalls : j < i /\ last.calls[j].ret = Nil

\* C2 as amended: UpdateShardStatus asks the authorizer first and reaches
\* metaWriter.UpdateShardStatus only after it answered nil; JoinNode and
\* RemoveNode never ask the authorizer, RemoveNode always calls
\* metaWriter.Remove and JoinNode calls metaWriter.Join whenever the node
\* resolves.
C2_OnlyUpdateShardStatusAuthorized ==
    /\ last.op = "UpdateShardStatus" =>
            /\ AuthorizeCalls = {1}
            /\ \A i \in WriterCalls : i > 1 /\ last.calls[1].ret = Nil
    /\ last.op = "RemoveNode" =>
            /\ AuthorizeCalls = {}
            /\ NumCalls("metaWriter.Remove") = 1
    /\ last.op = "JoinNode" =>
            /\ AuthorizeCalls = {}
            /\ \A i \in CallsTo("clusterState.NodeHostname") :
                    last.calls[i].ret.ok => NumCalls("metaWriter.Join") = 1

\* A JoinNode that changed the membership with no authorizer call at all.
C2_Witness ==
    /\ last.op = "JoinNode"
    /\ NumCalls("metaWriter.Join") = 1
    /\ AuthorizeCalls = {}
    /\ members # last.pre.members

\* C3: when clusterState.NodeHostname reports not-ok, JoinNode returns an
\* error, never calls metaWriter.Join and leaves the membership as it was,
\* whatever nodePort and voter are.
C3_JoinResolvesBeforePropose ==
    last.op = "JoinNode" =>
        \A i \in CallsTo("clusterState.NodeHostname") :
            ~last.calls[i].ret.ok =>
                /\ last.ret # Nil
                /\ NumCalls("metaWriter.Join") = 0
                /\ members = last.pre.members

\* An unresolved JoinNode with a port and the voter flag given, in a cluster
\* that already has a member.
C3_Witness ==
    /\ last.op = "JoinNode"
    /\ \E i \in CallsTo("clusterState.NodeHostname") : ~last.calls[i].ret.ok
    /\ last.args[2] = <<"9">> /\ last.args[3] = TRUE
    /\ members # {}

\* The number of times t occurs in list.
Count(list, t) == Cardinality({i \in DOMAIN list : list[i] = t})

\* list is an initial part of longer.
IsPrefix(list, longer) ==
    Len(list) <= Len(longer) /\ SubSeq(longer, 1, Len(list)) = list

\* The positions in schema s of the properties named propName of the classes
\* named className, both compared exactly.
Positions(s, className, propName) ==
    UNION {{<<ci, pi>> : pi \in {k \in DOMAIN s[ci].properties :
                                    s[ci].properties[k].name = propName}} :
           ci \in {k \in DOMAIN s : s[k].class = className}}

\* The last call is an UpdatePropertyAddDataType the authorizer let through.
AuthorizedAdd ==
    /\ last.op = "UpdatePropertyAddDataType"
    /\ \A i \in AuthorizeCalls : last.calls[i].ret = Nil

\* C4: an authorized UpdatePropertyAddDataType that repeats the call before it
\* (same class, property and type; that call authorized, its save and its
\* migrator succeeding) leaves the type in the property exactly once, leaves
\* the property as the first call left it, returns nil and calls neither
\* saveSchema nor the migrator.
C4_IdempotentDataTypeAdd ==
    (/\ AuthorizedAdd
     /\ last.before # <<>>
     /\ last.before[1].ret = Nil
     /\ \A i \in DOMAIN last.before[1].calls :
            last.before[1].calls[i].ret = Nil) =>
        \A pos \in Positions(last.pre.schema, last.args[1], last.args[2]) :
            LET after1 == last.pre.schema[pos[1]].properties[pos[2]]
                after2 == schema[pos[1]].properties[pos[2]]
            IN  /\ Count(after2.dataType, last.args[3]) = 1
                /\ after2 = after1
                /\ last.ret = Nil
                /\ NumCalls("saveSchema") = 0
                /\ NumCalls("migrator.UpdatePropertyAddDataType") = 0

\* The second of two successive adds of "Text" to Article.tags, the first of
\* which appended it behind "text" and "text[]", saved and migrated.
C4_Witness ==
    /\ AuthorizedAdd
    /\ last.args[1] = "Article" /\ last.args[2] = "tags" /\ last.args[3] = "Text"
    /\ last.before # <<>>
    /\ last.before[1].ret = Nil
    /\ Len(last.before[1].calls) = 4
    /\ last.before[1].calls[3].ret = Nil
    /\ schema[1].properties[1].dataType = <<"text", "text[]", "Text">>

\* C5: an UpdatePropertyAddDataType keeps every class and property, and the
\* data types each property had before the call are an initial part of those
\* it has after it; when the call is authorized and the type is not in the
\* named property (compared exactly), the property's list after the call is
\* the list before it with the type appended.
C5_DataTypesOnlyGrowInOrder ==
    last.op = "UpdatePropertyAddDataType" =>
        /\ Len(schema) = Len(last.pre.schema)
        /\ \A ci \in DOMAIN schema :
            /\ schema[ci].class = last.pre.schema[ci].class
            /\ Len(schema[ci].properties) = Len(last.pre.schema[ci].properties)
            /\ \A pi \in DOMAIN schema[ci].properties :
                /\ schema[ci].properties[pi].name =
                        last.pre.schema[ci].properties[pi].name
                /\ IsPrefix(last.pre.schema[ci].properties[pi].dataType,
                            schema[ci].properties[pi].dataType)
        /\ AuthorizedAdd =>
            \A pos \in Positions(last.pre.schema, last.args[1], last.args[2]) :
                LET old == last.pre.schema[pos[1]].properties[pos[2]].dataType
                IN  Count(old, last.args[3]) = 0 =>
                        schema[pos[1]].properties[pos[2]].dataType =
                            Append(old, last.args[3])

\* "Text" added to Article.tags holding "text" and "text[]": it differs from
\* "text" by case only and goes to the end.
C5_Witness ==
    /\ AuthorizedAdd
    /\ last.args[1] = "Article" /\ last.args[2] = "tags" /\ last.args[3] = "Text"
    /\ last.pre.schema[1].properties[1].dataType = <<"text", "text[]">>
    /\ schema[1].properties[1].dataType = <<"text", "text[]", "Text">>

C7_CommitThenApply ==
    (last.op = "UpdatePropertyAddDataType" /\ schema # last.pre.schema) =>
        \E i \in CallsTo("saveSchema") : last.calls[i].ret = Nil

\* C8: when saveSchema returns an error, UpdatePropertyAddDataType returns nil
\* and does not call the migrator.
C8_SaveErrorSwallowed ==
    last.op = "UpdatePropertyAddDataType" =>
        \A i \in CallsTo("saveSchema") :
            last.calls[i].ret # Nil =>
                /\ last.ret = Nil
                /\ NumCalls("migrator.UpdatePropertyAddDataType") = 0

\* A failed save of a type the property did not have.
C8_Witness ==
    /\ last.op = "UpdatePropertyAddDataType"
    /\ \E i \in CallsTo("saveSchema") : last.calls[i].ret = "save failed"
    /\ Count(last.pre.schema[1].properties[1].dataType, "text[]") = 0
    /\ last.args[1] = "Article" /\ last.args[2] = "tags"
    /\ last.args[3] = "text[]"

\* C9: an authorized UpdatePropertyAddDataType that names no class of the
\* schema (compared exactly), or a class but none of its properties, returns
\* an error, leaves the state as it was and calls neither saveSchema nor the
\* migrator.
C9_NotFoundHasNoEffect ==
    (AuthorizedAdd
        /\ Positions(last.pre.schema, last.args[1], last.args[2]) = {}) =>
            /\ last.ret # Nil
            /\ StateUntouched
            /\ NumCalls("saveSchema") = 0
            /\ NumCalls("migrator.UpdatePropertyAddDataType") = 0

\* Property name of class Author asked of class Article, which exists.
C9_Witness ==
    /\ AuthorizedAdd
    /\ last.args[1] = "Article" /\ last.args[2] = "name"
    /\ last.ret # Nil
    /\ Len(schema[2].properties[1].dataType) > 1

\* The part of addr before its first ":", all of addr when it has none.
BeforeFirstColon(addr) ==
    LET colons == {i \in DOMAIN addr : addr[i] = ":"}
    IN  IF colons = {} THEN addr
        ELSE SubSeq(addr, 1, (CHOOSE i \in colons : \A j \in colons : i <= j) - 1)

\* C10: for a node that resolves, JoinNode calls metaWriter.Join exactly once,
\* with the node ID, the voter flag and the address host:port, host being the
\* resolved address up to its first ":" and port the caller's nodePort, or
\* 8300 when nodePort is empty; JoinNode returns what metaWriter.Join returned.
C10_JoinAddressAndDefaultPort ==
    last.op = "JoinNode" =>
        \A i \in CallsTo("clusterState.NodeHostname") :
            last.calls[i].ret.ok =>
                /\ NumCalls("metaWriter.Join") = 1
                /\ \A j \in CallsTo("metaWriter.Join") :
                    /\ last.calls[j].args =
                        <<last.args[1],
                          BeforeFirstColon(last.calls[i].ret.addr) \o <<":">>
                            \o (IF last.args[2] = <<>>
                                THEN <<"8", "3", "0", "0">>
                                ELSE last.args[2]),
                          last.args[3]>>
                    /\ last.ret = last.calls[j].ret

\* A non-voter joined with no port given, resolved to an address with two
\* colons: it joins at a:8300, and metaWriter.Join's error is returned.
C10_Witness ==
    /\ last.op = "JoinNode"
    /\ last.args = <<"n2", <<>>, FALSE>>
    /\ \E i \in CallsTo("clusterState.NodeHostname") :
            last.calls[i].ret.addr = <<"a", ":", "7", ":", "8">>
    /\ \E j \in CallsTo("metaWriter.Join") :
            /\ last.calls[j].args[2] = <<"a", ":", "8", "3", "0", "0">>
            /\ last.calls[j].ret = "not leader"
    /\ last.ret = "not leader"

\* C12: an UpdatePropertyAddDataType calls the migrator at most once, and only
\* when the type was not in the property's list before the call and a
\* saveSchema call earlier in the same call returned nil; the migrator's
\* result is then the result of the call.
C12_SaveBeforeMigrate ==
    last.op = "UpdatePropertyAddDataType" =>
        /\ NumCalls("migrator.UpdatePropertyAddDataType") <= 1
        /\ \A j \in CallsTo("migrator.UpdatePropertyAddDataType") :
            /\ \E i \in CallsTo("saveSchema") : i < j /\ last.calls[i].ret = Nil
            /\ \A i \in CallsTo("saveSchema") : last.calls[i].ret = Nil
            /\ \A pos \in Positions(last.pre.schema, last.args[1], last.args[2]) :
                Count(last.pre.schema[pos[1]].properties[pos[2]].dataType,
                      last.args[3]) = 0
            /\ Positions(last.pre.schema, last.args[1], last.args[2]) # {}
            /\ last.ret = last.calls[j].ret

\* A migrator that failed after a successful save of a new type: its error is
\* what the call returned.
C12_Witness ==
    /\ last.op = "UpdatePropertyAddDataType"
    /\ \E j \in CallsTo("migrator.UpdatePropertyAddDataType") :
            last.calls[j].ret = "migrate failed"
    /\ \E i \in CallsTo("saveSchema") : last.calls[i].ret = Nil
    /\ last.ret = "migrate failed"
    /\ last.args = <<"Author", "name", "text[]">>


\* The last call returned, with a nil error, the schema wrapped around the
\* answer of its one metaReader.ReadOnlySchema call.
ReturnedOneRead ==
    /\ NumCalls("metaReader.ReadOnlySchema") = 1
    /\ \A i \in CallsTo("metaReader.ReadOnlySchema") :
          last.ret = [schema |-> [Objects |-> <<last.calls[i].ret>>],
                      err |-> Nil]

\* C13: GetSchema called by a principal the authorizer accepts and
\* GetSchemaSkipAuth both return, from exactly one metaReader.ReadOnlySchema
\* call, the schema their node holds in the state they return in;
\* GetSchemaSkipAuth never calls the authorizer; GetSchema called by a rejected
\* principal returns the authorizer's error with an empty schema and makes no
\* ReadOnlySchema call.
C13_ReadEntryPointsAgree ==
    /\ last.op = "GetSchemaSkipAuth" =>
          AuthorizeCalls = {} /\ ReturnedOneRead
    /\ last.op = "GetSchema" =>
          /\ AuthorizeCalls = {1}
          /\ last.calls[1].args = <<last.principal, "list", "schema/*">>
          /\ IF last.calls[1].ret = Nil
             THEN ReturnedOneRead
             ELSE /\ last.ret = [schema |-> [Objects |-> <<>>],
                                 err |-> last.calls[1].ret]
                  /\ NumCalls("metaReader.ReadOnlySchema") = 0
    /\ cluster.read.state = "returned" =>
          /\ last.op = cluster.read.op
          /\ last.args = <<cluster.read.node>>
          /\ last.ret.schema = [Objects |->
                <<Replay(SubSeq(cluster.log, 1, cluster.read.upto))>>]

C13_Witness ==
    /\ last.op = "GetSchema"
    /\ last.principal = "guest"
    /\ cluster.read.state = "returned"
    /\ last.ret = [schema |-> [Objects |-> <<<<"Article">>>>], err |-> Nil]
    /\ Len(cluster.log) = 2
    /\ cluster.read.upto = 1

============================================================================
